---- MODULE Spec2Model ----
(***************************************************************************)
(* A model of the voice-agent scripts baml_agent.py and vanilla_agent.py:  *)
(* the ConversationRecorder, the EnhancedBAMLProcessor and the             *)
(* ValidationFreeDebugProcessor, the control flow of main(), and the       *)
(* delivery of frames along the processor list of the pipeline; and of     *)
(* the AgentEvaluator of evaluate_agent.py.                                *)
(*                                                                         *)
(* Five specifications share the variables:                                *)
(*   SpecRecorder  the recorder driven by arbitrary calls of its methods;  *)
(*   Spec          one run of main() (both agents), the BAML processor     *)
(*                 receiving frames while the runner runs, every           *)
(*                 push_frame call returning normally;                     *)
(*   SpecPipe      frames travelling along the processor list, where a     *)
(*                 push_frame call of the two processors may raise;        *)
(*   SpecLive      the BAML processor of a running pipeline that is not    *)
(*                 cancelled, every structuring call returning or raising  *)
(*                 in the end (weak fairness);                             *)
(*   SpecEval      main() of evaluate_agent.py: evaluations of scenarios   *)
(*                 and the metrics of their results.                       *)
(***************************************************************************)
EXTENDS Integers, Sequences, FiniteSets, TLC

\* ------------------------------------------------------------------ bounds
MaxRecords == 4
MaxClock == 2
MaxCalls == 2
MaxFrames == 4
MaxAudio == 2
MaxResults == 2

\* ------------------------------------------------------- values and inputs
\* Python's None where a string is expected.
None == "<None>"
\* Python's None where a time is expected: time.time() is positive, the
\* clock of the model starts at 1, so 0 stands for None (both are falsy).
NoTime == 0
CallIds == {"c1", "c2"}
UserTexts == {"", "hi"}
AgentTexts == {"ok"}
Latencies == {100, 200, 300}

\* The call id main() makes from the time of day (enhanced_call_<time>).
MainCallIds == {"c1"}
\* The latencies the processor may measure for a structuring call.
MeasuredLatencies == {100}
\* What the structuring layer may answer (response.message).
BamlMessages == {"ok"}
\* FrameDirection
DOWNSTREAM == "DOWNSTREAM"
UPSTREAM == "UPSTREAM"
Directions == {DOWNSTREAM, UPSTREAM}
\* The environment variables the agents read.
EnvVars == {"OPENAI_API_KEY", "DAILY_TOKEN", "CARTESIA_API_KEY",
            "DAILY_ROOM_URL", "DEEPGRAM_API_KEY"}

\* Frames: StartFrame, EndFrame, TextFrame(text), and AudioRawFrame for the
\* kinds the processor does not look at.  id numbers the frames in the order
\* of their delivery; the frame the processor builds has id 0.
StartFrame(id) == [kind |-> "StartFrame", text |-> None, id |-> id]
EndFrame(id) == [kind |-> "EndFrame", text |-> None, id |-> id]
AudioRawFrame(id) == [kind |-> "AudioRawFrame", text |-> None, id |-> id]
TextFrame(text, id) == [kind |-> "TextFrame", text |-> text, id |-> id]

FramesWithId(id) ==
    {StartFrame(id), EndFrame(id), AudioRawFrame(id)}
       \cup {TextFrame(t, id) : t \in UserTexts}

\* Python truthiness of an optional string: None and "" are falsy.
Truthy(s) == s # None /\ s # ""

VARIABLES
    \* ConversationRecorder
    conversation, current_call_id, last_user_input, last_input_time,
    \* the files under evaluation/sample_calls/, by call id
    files,
    \* the wall clock (time.time(), datetime.now())
    clock,
    \* history: the number of start_new_call calls so far, the recorder
    \* method called last with its first argument, and what the last
    \* save_call wrote (<<>> if it wrote nothing)
    epoch, lastOp, lastWrite,
    \* history: the number of record_user_input and record_agent_response
    \* calls so far
    nrec

recVars == <<conversation, current_call_id, last_user_input, last_input_time,
             files, clock, epoch, lastOp, lastWrite, nrec>>

VARIABLES
    \* which script runs: "baml" (baml_agent.py) or "vanilla" (vanilla_agent.py)
    agent,
    \* the module-level flag of baml_agent.py, set by the import of baml_client
    BAML_AVAILABLE,
    \* where main() is, and its missing_vars once computed
    pc, missing_vars,
    \* the objects main() has created so far
    created,
    \* the task of runner.run(task): "none", "running", "finished" (returned),
    \* "failed" (raised) or "cancelled"
    runner_task,
    \* history: the calls of runner.cancel(), the save_call calls of main()
    \* that wrote a record, and whether a required variable was unset when
    \* main() read the environment
    cancels, writes, env_missing

mainVars == <<agent, BAML_AVAILABLE, pc, missing_vars, created, runner_task,
              cancels, writes, env_missing>>

VARIABLES
    \* EnhancedBAMLProcessor
    baml_pipeline_started, _processing_response, last_user_text,
    \* the process_frame invocations suspended in await b.CustomerSupport(..)
    pending,
    \* history: the frames the processor pushed, in order, the number of
    \* frames delivered to it, and its last step: the frame and direction it
    \* was about and whether an exception left process_frame
    pushed, nframes, event

bamlVars == <<baml_pipeline_started, _processing_response, last_user_text,
              pending, pushed, nframes, event>>

VARIABLES
    \* ValidationFreeDebugProcessor._pipeline_started
    debug_pipeline_started,
    \* the frames queued for each processor of the pipeline, with directions
    inbox,
    \* the audio frames the input transport produced so far, and whether the
    \* task of the runner has sent its own StartFrame
    emitted, task_started,
    \* history, per processor: whether it has observed a StartFrame, and
    \* whether it observed a data frame before any StartFrame
    seen_start, early_data,
    \* history: per processor, whether it has observed an EndFrame; the
    \* number of StartFrames the first processor of the list has observed
    seen_end, head_starts,
    \* history: the last step of the debug processor or of the BAML processor
    \* in the list: the frame it took, the frames it pushed, and whether an
    \* exception left process_frame
    taken

pipeVars == <<debug_pipeline_started, inbox, emitted, task_started,
              seen_start, early_data, seen_end, head_starts, taken>>

VARIABLES
    \* evaluate_agent.py: the TestResults collected so far (all_results), and
    \* the EvaluationMetrics computed last with, as history, the number of
    \* results they were computed from
    results, metrics

evalVars == <<results, metrics>>

vars == <<recVars, mainVars, bamlVars, pipeVars, evalVars>>

\* ------------------------------------------------------------- arithmetic
RECURSIVE SumSeq(_)
SumSeq(s) == IF s = <<>> THEN 0 ELSE Head(s) + SumSeq(Tail(s))

RECURSIVE Gcd(_, _)
Gcd(a, b) == IF b = 0 THEN a ELSE Gcd(b, a % b)

\* The quotient a / b of Python's true division, as a fraction in lowest terms.
TrueDiv(a, b) == LET g == Gcd(a, b) IN [num |-> a \div g, den |-> b \div g]

\* ---------------------------------------------------- ConversationRecorder
RecorderInit ==
    /\ conversation = <<>>
    /\ current_call_id = None
    /\ last_user_input = None
    /\ last_input_time = NoTime
    /\ files = <<>>
    /\ clock = 1
    /\ epoch = 0
    /\ lastOp = [op |-> "init", arg |-> None]
    /\ lastWrite = <<>>
    /\ nrec = 0

\* start_new_call that keeps the turns of the previous call.
MutStartKeepsConversation(call_id) ==
    /\ current_call_id' = call_id
    /\ conversation' = conversation
    /\ last_user_input' = None
    /\ last_input_time' = NoTime
    /\ epoch' = epoch + 1
    /\ lastOp' = [op |-> "start_new_call", arg |-> call_id]
    /\ UNCHANGED <<files, clock, lastWrite, nrec>>

start_new_call(call_id) ==
    /\ current_call_id' = call_id
    /\ conversation' = <<>>
    /\ last_user_input' = None
    /\ last_input_time' = NoTime
    /\ epoch' = epoch + 1
    /\ lastOp' = [op |-> "start_new_call", arg |-> call_id]
    /\ UNCHANGED <<files, clock, lastWrite, nrec>>

UserTurn(text) ==
    [type |-> "user", text |-> text, timestamp |-> clock, call |-> epoch]

AgentTurn(text, latency_ms) ==
    [type |-> "agent", text |-> text, latency_ms |-> latency_ms,
     timestamp |-> clock, call |-> epoch]

record_user_input(text) ==
    /\ last_user_input' = text
    /\ last_input_time' = clock
    /\ conversation' = Append(conversation, UserTurn(text))
    /\ lastOp' = [op |-> "record_user_input", arg |-> text]
    /\ nrec' = nrec + 1
    /\ UNCHANGED <<current_call_id, files, clock, epoch, lastWrite>>

\* record_agent_response without the test of line 162.
MutAgentAlwaysAppends(text, latency_ms) ==
    /\ conversation' = Append(conversation, AgentTurn(text, latency_ms))
    /\ lastOp' = [op |-> "record_agent_response", arg |-> text]
    /\ nrec' = nrec + 1
    /\ UNCHANGED <<current_call_id, last_user_input, last_input_time,
                   files, clock, epoch, lastWrite>>

record_agent_response(text, latency_ms) ==
    /\ conversation' =
          IF Truthy(last_user_input) /\ last_input_time # NoTime
          THEN Append(conversation, AgentTurn(text, latency_ms))
          ELSE conversation
    /\ lastOp' = [op |-> "record_agent_response", arg |-> text]
    /\ nrec' = nrec + 1
    /\ UNCHANGED <<current_call_id, last_user_input, last_input_time,
                   files, clock, epoch, lastWrite>>

HasLatency(t) == "latency_ms" \in DOMAIN t
LatencyOf(t) == t.latency_ms
IsUser(t) == t.type = "user"

Latencies_of(conv) ==
    LET l == SelectSeq(conv, HasLatency) IN [i \in 1..Len(l) |-> LatencyOf(l[i])]

\* An average that divides by the number of all turns.
MutAvgOverAllTurns(conv) ==
    LET latencies == Latencies_of(conv) IN
    IF latencies # <<>> THEN TrueDiv(SumSeq(latencies), Len(conv))
    ELSE [num |-> 0, den |-> 1]

_calculate_avg_latency(conv) ==
    LET latencies == Latencies_of(conv) IN
    IF latencies # <<>> THEN TrueDiv(SumSeq(latencies), Len(latencies))
    ELSE [num |-> 0, den |-> 1]

total_turns(conv) == Len(SelectSeq(conv, IsUser))

call_data ==
    [call_id |-> current_call_id,
     timestamp |-> clock,
     conversation |-> conversation,
     total_turns |-> total_turns(conversation),
     avg_latency |-> _calculate_avg_latency(conversation),
     call |-> epoch]

save_call ==
    /\ IF Truthy(current_call_id) /\ conversation # <<>>
       THEN /\ files' = (current_call_id :> call_data) @@ files
            /\ lastWrite' = <<call_data>>
       ELSE /\ files' = files
            /\ lastWrite' = <<>>
    /\ lastOp' = [op |-> "save_call", arg |-> None]
    /\ UNCHANGED <<conversation, current_call_id, last_user_input,
                   last_input_time, clock, epoch, nrec>>

\* save_call when os.makedirs, open or json.dump raises (lines 178-183, which
\* no handler encloses): no record is written and the exception leaves
\* save_call.
save_call_raises ==
    /\ Truthy(current_call_id) /\ conversation # <<>>
    /\ lastWrite' = <<>>
    /\ lastOp' = [op |-> "save_call", arg |-> "raised"]
    /\ UNCHANGED <<conversation, current_call_id, last_user_input,
                   last_input_time, files, clock, epoch, nrec>>

\* --------------------------------------------- the recorder, driven freely
RStartNewCall ==
    /\ epoch < MaxCalls
    /\ \E id \in CallIds : start_new_call(id)
    /\ UNCHANGED <<evalVars, mainVars, bamlVars, pipeVars>>

RRecordUserInput ==
    /\ nrec < MaxRecords
    /\ \E text \in UserTexts : record_user_input(text)
    /\ UNCHANGED <<evalVars, mainVars, bamlVars, pipeVars>>

RRecordAgentResponse ==
    /\ nrec < MaxRecords
    /\ \E text \in AgentTexts, l \in Latencies : record_agent_response(text, l)
    /\ UNCHANGED <<evalVars, mainVars, bamlVars, pipeVars>>

RSaveCall == save_call /\ UNCHANGED <<evalVars, mainVars, bamlVars, pipeVars>>

Tick ==
    /\ clock < MaxClock
    /\ clock' = clock + 1
    /\ UNCHANGED <<conversation, current_call_id, last_user_input,
                   last_input_time, files, epoch, lastOp, lastWrite, nrec>>
    /\ UNCHANGED <<evalVars, mainVars, bamlVars, pipeVars>>

\* No evaluation has been made.
EvalIdle ==
    /\ results = <<>>
    /\ metrics = [m |-> None, n |-> -1]

\* The other components stand still while the recorder is driven alone.
MainIdle ==
    /\ agent = "baml"
    /\ BAML_AVAILABLE = FALSE
    /\ pc = "idle"
    /\ missing_vars = {}
    /\ created = {}
    /\ runner_task = "none"
    /\ cancels = 0
    /\ writes = 0
    /\ env_missing = FALSE

\* A processor that takes itself for started from its construction.
MutBamlStartsRunning ==
    /\ baml_pipeline_started = TRUE
    /\ _processing_response = FALSE
    /\ last_user_text = None
    /\ pending = <<>>
    /\ pushed = <<>>
    /\ nframes = 0
    /\ event = [kind |-> "none", frame |-> StartFrame(0),
                direction |-> DOWNSTREAM, escaped |-> FALSE]

BamlProcessorInit ==
    /\ baml_pipeline_started = FALSE
    /\ _processing_response = FALSE
    /\ last_user_text = None
    /\ pending = <<>>
    /\ pushed = <<>>
    /\ nframes = 0
    /\ event = [kind |-> "none", frame |-> StartFrame(0),
                direction |-> DOWNSTREAM, escaped |-> FALSE]

\* The processor lists of the two pipelines (lines 396-405; 131-138).
Pipeline(a) ==
    IF a = "baml"
    THEN <<"input", "debug", "stt", "llm", "baml", "tts", "output", "aggregator">>
    ELSE <<"input", "debug", "stt", "llm", "tts", "output">>

PipeIdle ==
    /\ debug_pipeline_started = FALSE
    /\ inbox = [k \in 1..Len(Pipeline(agent)) |-> <<>>]
    /\ emitted = 0
    /\ task_started = FALSE
    /\ seen_start = [k \in 1..Len(Pipeline(agent)) |-> FALSE]
    /\ early_data = [k \in 1..Len(Pipeline(agent)) |-> FALSE]
    /\ seen_end = [k \in 1..Len(Pipeline(agent)) |-> FALSE]
    /\ head_starts = 0
    /\ taken = [proc |-> "none", frame |-> StartFrame(0),
                direction |-> DOWNSTREAM, pushes |-> <<>>, escaped |-> FALSE]

InitRecorder ==
    RecorderInit /\ MainIdle /\ BamlProcessorInit /\ PipeIdle /\ EvalIdle

NextRecorder ==
    \/ RStartNewCall
    \/ RRecordUserInput
    \/ RRecordAgentResponse
    \/ RSaveCall
    \/ Tick

SpecRecorder == InitRecorder /\ [][NextRecorder]_vars

\* ---------------------------------------------------- EnhancedBAMLProcessor
\* self.push_frame(frame, direction)
push_frame(frame, direction) ==
    pushed' = Append(pushed, [frame |-> frame, direction |-> direction])

\* process_frame up to its first suspension or to its end (lines 202-267).
process_frame(frame, direction) ==
    LET started == IF frame.kind = "StartFrame" THEN TRUE
                   ELSE IF frame.kind = "EndFrame" THEN FALSE
                   ELSE baml_pipeline_started
    IN
    /\ baml_pipeline_started' = started
    /\ IF ~started THEN
          /\ push_frame(frame, direction)
          /\ UNCHANGED <<_processing_response, last_user_text, pending, recVars>>
       ELSE IF direction = UPSTREAM /\ frame.kind = "TextFrame"
               /\ ~_processing_response THEN
          /\ last_user_text' = frame.text
          /\ record_user_input(frame.text)
          /\ push_frame(frame, direction)
          /\ UNCHANGED <<_processing_response, pending>>
       ELSE IF direction = DOWNSTREAM /\ frame.kind = "TextFrame"
               /\ Truthy(last_user_text) /\ ~_processing_response THEN
          IF BAML_AVAILABLE THEN
             \* suspended in await b.CustomerSupport(request)
             /\ _processing_response' = TRUE
             /\ pending' = Append(pending,
                                  [frame |-> frame, direction |-> direction,
                                   user_message |-> last_user_text])
             /\ UNCHANGED <<last_user_text, pushed, recVars>>
          ELSE
             \* fallback: the finally clause, then the push of line 267
             /\ _processing_response' = FALSE
             /\ push_frame(frame, direction)
             /\ UNCHANGED <<last_user_text, pending, recVars>>
       ELSE
          /\ push_frame(frame, direction)
          /\ UNCHANGED <<_processing_response, last_user_text, pending, recVars>>

\* process_frame suspends in await b.CustomerSupport(request) for this frame
\* (lines 226-238).
suspends_in_call(frame, direction) ==
    /\ frame.kind = "TextFrame"
    /\ direction = DOWNSTREAM
    /\ baml_pipeline_started
    /\ Truthy(last_user_text)
    /\ ~_processing_response
    /\ BAML_AVAILABLE

\* process_frame when the push_frame call of line 212 or of line 267 raises:
\* what was done before the call stays done, nothing is pushed, and the
\* exception leaves process_frame (no handler encloses these calls).
process_frame_push_raises(frame, direction) ==
    LET started == IF frame.kind = "StartFrame" THEN TRUE
                   ELSE IF frame.kind = "EndFrame" THEN FALSE
                   ELSE baml_pipeline_started
    IN
    /\ ~suspends_in_call(frame, direction)
    /\ baml_pipeline_started' = started
    /\ pushed' = pushed
    /\ IF started /\ direction = UPSTREAM /\ frame.kind = "TextFrame"
          /\ ~_processing_response THEN
          /\ last_user_text' = frame.text
          /\ record_user_input(frame.text)
          /\ UNCHANGED <<_processing_response, pending>>
       ELSE
          \* in the fallback the finally clause leaves the flag false
          UNCHANGED <<_processing_response, last_user_text, pending, recVars>>

\* A continuation that records the response and pushes nothing.
MutReturnsPushesNothing(message, latency_ms) ==
    /\ record_agent_response(message, latency_ms)
    /\ pushed' = pushed
    /\ last_user_text' = None
    /\ _processing_response' = FALSE
    /\ pending' = Tail(pending)
    /\ UNCHANGED baml_pipeline_started

\* b.CustomerSupport(request) returns response (lines 241-256, 264).
structuring_returns(message, latency_ms) ==
    LET p == Head(pending) IN
    /\ record_agent_response(message, latency_ms)
    /\ push_frame(TextFrame(message, 0), p.direction)
    /\ last_user_text' = None
    /\ _processing_response' = FALSE
    /\ pending' = Tail(pending)
    /\ UNCHANGED baml_pipeline_started

\* An except clause that swallows the frame with the error.
MutRaiseDropsFrame ==
    /\ _processing_response' = FALSE
    /\ pending' = Tail(pending)
    /\ UNCHANGED <<baml_pipeline_started, last_user_text, pushed, recVars>>

\* b.CustomerSupport(request) raises an Exception (lines 261-267).
structuring_raises ==
    LET p == Head(pending) IN
    /\ _processing_response' = FALSE
    /\ push_frame(p.frame, p.direction)
    /\ pending' = Tail(pending)
    /\ UNCHANGED <<baml_pipeline_started, last_user_text, recVars>>

\* A cancellation that skips the finally clause.
MutCancelLeavesFlag ==
    /\ pending' = Tail(pending)
    /\ UNCHANGED <<_processing_response, baml_pipeline_started, last_user_text,
                   pushed, recVars>>

\* The task running process_frame is cancelled while suspended: the
\* CancelledError passes the except clause, the finally clause runs
\* (lines 263-264).
structuring_cancelled ==
    /\ _processing_response' = FALSE
    /\ pending' = Tail(pending)
    /\ UNCHANGED <<baml_pipeline_started, last_user_text, pushed, recVars>>

\* ------------------------------------------------------------------ main()
REQUIRED_BAML == {"OPENAI_API_KEY", "DAILY_TOKEN", "CARTESIA_API_KEY",
                  "DAILY_ROOM_URL"}
REQUIRED_VANILLA == {"OPENAI_API_KEY", "DAILY_TOKEN", "DAILY_ROOM_URL"}

\* required_env_vars / required_vars, given DEEPGRAM_AVAILABLE
required_vars(a, deepgram_available) ==
    IF a = "baml"
    THEN REQUIRED_BAML
            \cup (IF deepgram_available THEN {"DEEPGRAM_API_KEY"} ELSE {})
    ELSE REQUIRED_VANILLA

\* A check that forgets the room URL.
MutMissingSkipsRoomUrl(a, deepgram_available, env) ==
    {v \in required_vars(a, deepgram_available) \ {"DAILY_ROOM_URL"} : v \notin env}

\* missing_vars, given the set of the variables that are set and not empty
missing(a, deepgram_available, env) ==
    {v \in required_vars(a, deepgram_available) : v \notin env}

\* What the try block of main() creates, in order.
BuildOrder(a) ==
    IF a = "baml"
    THEN <<"recorder", "transport", "llm", "stt", "tts", "debug_processor",
           "baml_processor", "llm_aggregator", "pipeline", "task", "runner">>
    ELSE <<"transport", "stt", "llm", "tts", "debug_processor", "pipeline",
           "task", "runner">>

\* The classes of this repository; the others are constructors of the
\* framework and of the service clients, which may raise.
OwnClasses == {"recorder", "debug_processor", "baml_processor"}

NextToBuild == BuildOrder(agent)[Cardinality(created) + 1]

\* lines 301-320 (baml_agent.py), 147-157 (vanilla_agent.py)
CheckEnv ==
    /\ pc = "check_env"
    /\ \E env \in SUBSET EnvVars, deepgram_available \in BOOLEAN :
          /\ missing_vars' = missing(agent, deepgram_available, env)
          /\ env_missing' = ~(required_vars(agent, deepgram_available) \subseteq env)
          /\ pc' = IF missing_vars' # {}
                   THEN (IF agent = "baml" THEN "exited" ELSE "done")
                   ELSE "build"
    /\ UNCHANGED <<evalVars, agent, BAML_AVAILABLE, created, runner_task, cancels, writes>>
    /\ UNCHANGED <<recVars, bamlVars, pipeVars>>

\* One constructor call of the try block (lines 355-409; 180-184).
Build ==
    /\ pc = "build"
    /\ created' = created \cup {NextToBuild}
    /\ pc' = IF Cardinality(created') = Len(BuildOrder(agent))
             THEN "create_task" ELSE "build"
    /\ IF NextToBuild = "recorder"
       THEN \E id \in MainCallIds : start_new_call(id)
       ELSE UNCHANGED recVars
    /\ UNCHANGED <<evalVars, agent, BAML_AVAILABLE, missing_vars, runner_task, cancels, writes,
                   env_missing>>
    /\ UNCHANGED <<bamlVars, pipeVars>>

BuildRaises ==
    /\ pc = "build"
    /\ NextToBuild \notin OwnClasses
    /\ pc' = "except_exception"
    /\ UNCHANGED <<evalVars, agent, BAML_AVAILABLE, missing_vars, created, runner_task,
                   cancels, writes, env_missing>>
    /\ UNCHANGED <<recVars, bamlVars, pipeVars>>

\* runner_task = asyncio.create_task(runner.run(task))
CreateTask ==
    /\ pc = "create_task"
    /\ runner_task' = "running"
    /\ pc' = "sleep"
    /\ UNCHANGED <<evalVars, agent, BAML_AVAILABLE, missing_vars, created, cancels, writes,
                   env_missing>>
    /\ UNCHANGED <<recVars, bamlVars, pipeVars>>

\* manually_start_pipeline: await asyncio.sleep(1)
Sleep ==
    /\ pc = "sleep"
    /\ pc' = "inject"
    /\ UNCHANGED <<evalVars, agent, BAML_AVAILABLE, missing_vars, created, runner_task,
                   cancels, writes, env_missing>>
    /\ UNCHANGED <<recVars, bamlVars, pipeVars>>

\* manually_start_pipeline after the sleep (lines 63-80): the StartFrame is
\* handed to the first processor, whose part is first_processor_call; an
\* Exception of that call is caught and printed.
manually_start_pipeline(first_processor_call) ==
    /\ pc = "inject"
    /\ pc' = "await_runner"
    /\ first_processor_call
    /\ UNCHANGED <<evalVars, agent, BAML_AVAILABLE, missing_vars, created, runner_task,
                   cancels, writes, env_missing>>

\* In Spec the frames on their way between the processors are not followed.
Inject ==
    /\ manually_start_pipeline(UNCHANGED pipeVars)
    /\ UNCHANGED <<recVars, bamlVars>>

\* main() is suspended in an await (asyncio.sleep, the process_frame call of
\* manually_start_pipeline, runner_task): only then the event loop runs the
\* other tasks and delivers a Ctrl+C.
AtAwait == pc \in {"sleep", "inject", "await_runner"}

\* runner.run(task) returns or raises, in the background.
RunnerEnds ==
    /\ runner_task = "running"
    /\ AtAwait
    /\ \E r \in {"finished", "failed"} : runner_task' = r
    /\ UNCHANGED <<evalVars, agent, BAML_AVAILABLE, pc, missing_vars, created, cancels, writes,
                   env_missing>>
    /\ UNCHANGED <<recVars, bamlVars, pipeVars>>

\* await runner_task
AwaitRunner ==
    /\ pc = "await_runner"
    /\ runner_task \in {"finished", "failed"}
    /\ pc' = IF runner_task = "finished" THEN "finally" ELSE "except_exception"
    /\ UNCHANGED <<evalVars, agent, BAML_AVAILABLE, missing_vars, created, runner_task,
                   cancels, writes, env_missing>>
    /\ UNCHANGED <<recVars, bamlVars, pipeVars>>

\* Ctrl+C while main() waits, or between the construction of the runner and
\* the creation of its task (lines 409-420).
KeyboardInterrupt ==
    /\ AtAwait \/ pc = "create_task"
    /\ pc' = "except_keyboard_interrupt"
    /\ UNCHANGED <<evalVars, agent, BAML_AVAILABLE, missing_vars, created, runner_task,
                   cancels, writes, env_missing>>
    /\ UNCHANGED <<recVars, bamlVars, pipeVars>>

\* The two except clauses (lines 428-436; 201-206): baml_agent.py saves the
\* call in both, vanilla_agent.py has no recorder.
ExceptClause ==
    /\ pc \in {"except_keyboard_interrupt", "except_exception"}
    /\ pc' = "finally"
    /\ IF agent = "baml"
       THEN /\ save_call
            /\ writes' = writes + Len(lastWrite')
       ELSE UNCHANGED <<recVars, writes>>
    /\ UNCHANGED <<evalVars, agent, BAML_AVAILABLE, missing_vars, created, runner_task, cancels,
                   env_missing>>
    /\ UNCHANGED <<bamlVars, pipeVars>>

\* recorder.save_call() raises inside an except clause of baml_agent.py: the
\* exception leaves the clause, the finally clause runs with it pending.
ExceptClauseSaveRaises ==
    /\ pc \in {"except_keyboard_interrupt", "except_exception"}
    /\ agent = "baml"
    /\ pc' = "finally_raising"
    /\ save_call_raises
    /\ UNCHANGED <<evalVars, agent, BAML_AVAILABLE, missing_vars, created, runner_task, cancels,
                   writes, env_missing>>
    /\ UNCHANGED <<bamlVars, pipeVars>>

\* A runner.cancel() that marks the task cancelled whatever its state.
MutCancelAlways ==
    /\ runner_task' = "cancelled"
    /\ cancels' = cancels + 1

\* runner.cancel(): ends the run if there is one.
runner_cancel ==
    /\ runner_task' = IF runner_task = "running" THEN "cancelled" ELSE runner_task
    /\ cancels' = cancels + 1

\* The finally clause (lines 438-445; 207-213): an Exception of
\* runner.cancel() is caught there (cancel_raises); main() then returns, or
\* the exception that was pending when the clause began goes on ("raised").
Finally ==
    /\ pc \in {"finally", "finally_raising"}
    /\ pc' = IF pc = "finally" THEN "done" ELSE "raised"
    /\ IF "runner" \in created
       THEN \E cancel_raises \in BOOLEAN :
               IF cancel_raises /\ runner_task = "running"
               THEN /\ cancels' = cancels + 1
                    /\ UNCHANGED runner_task
               ELSE runner_cancel
       ELSE UNCHANGED <<runner_task, cancels>>
    /\ UNCHANGED <<evalVars, agent, BAML_AVAILABLE, missing_vars, created, writes, env_missing>>
    /\ UNCHANGED <<recVars, bamlVars, pipeVars>>

IsData(frame) == frame.kind \in {"AudioRawFrame", "TextFrame"}

\* Processor k of the list observes frame: the history of the control frames
\* it has taken and of start-before-data.
Observe(k, frame) ==
    /\ seen_start' = [seen_start EXCEPT ![k] = @ \/ frame.kind = "StartFrame"]
    /\ early_data' = [early_data EXCEPT ![k] = @ \/ (IsData(frame) /\ ~seen_start[k])]
    /\ seen_end' = [seen_end EXCEPT ![k] = @ \/ frame.kind = "EndFrame"]
    /\ head_starts' = IF k = 1 /\ frame.kind = "StartFrame"
                      THEN head_starts + 1 ELSE head_starts

\* The place of baml_processor in the processor list.
BamlIndex == CHOOSE k \in 1..Len(Pipeline("baml")) : Pipeline("baml")[k] = "baml"

\* The framework hands a frame to baml_processor.process_frame.
DeliverFrame ==
    /\ agent = "baml"
    /\ runner_task = "running"
    /\ AtAwait
    /\ nframes < MaxFrames
    /\ nframes' = nframes + 1
    /\ \E f \in FramesWithId(nframes + 1), d \in Directions :
          /\ process_frame(f, d)
          /\ Observe(BamlIndex, f)
          /\ event' = [kind |-> "deliver", frame |-> f, direction |-> d,
                       escaped |-> FALSE]
    /\ UNCHANGED <<evalVars, mainVars, debug_pipeline_started, inbox, emitted, task_started,
                   taken>>

StructuringReturns ==
    /\ pending # <<>>
    /\ AtAwait
    /\ \E m \in BamlMessages, l \in MeasuredLatencies : structuring_returns(m, l)
    /\ event' = [kind |-> "returns", frame |-> Head(pending).frame,
                 direction |-> Head(pending).direction, escaped |-> FALSE]
    /\ UNCHANGED <<evalVars, mainVars, pipeVars, nframes>>

StructuringRaises ==
    /\ pending # <<>>
    /\ AtAwait
    /\ structuring_raises
    /\ event' = [kind |-> "raises", frame |-> Head(pending).frame,
                 direction |-> Head(pending).direction, escaped |-> FALSE]
    /\ UNCHANGED <<evalVars, mainVars, pipeVars, nframes>>

StructuringCancelled ==
    /\ pending # <<>>
    /\ runner_task # "running"
    /\ structuring_cancelled
    /\ event' = [kind |-> "cancelled", frame |-> Head(pending).frame,
                 direction |-> Head(pending).direction, escaped |-> TRUE]
    /\ UNCHANGED <<evalVars, mainVars, pipeVars, nframes>>

Init ==
    /\ RecorderInit
    /\ BamlProcessorInit
    /\ agent \in {"baml", "vanilla"}
    /\ PipeIdle
    /\ EvalIdle
    /\ BAML_AVAILABLE \in (IF agent = "baml" THEN BOOLEAN ELSE {FALSE})
    /\ pc = "check_env"
    /\ missing_vars = {}
    /\ created = {}
    /\ runner_task = "none"
    /\ cancels = 0
    /\ writes = 0
    /\ env_missing = FALSE

Next ==
    \/ CheckEnv
    \/ Build
    \/ BuildRaises
    \/ CreateTask
    \/ Sleep
    \/ Inject
    \/ RunnerEnds
    \/ AwaitRunner
    \/ KeyboardInterrupt
    \/ ExceptClause
    \/ ExceptClauseSaveRaises
    \/ Finally
    \/ DeliverFrame
    \/ StructuringReturns
    \/ StructuringRaises
    \/ StructuringCancelled

Spec == Init /\ [][Next]_vars

\* ------------------------------- the BAML processor while the runner runs
\* main() of baml_agent.py waits in await runner_task and the runner keeps
\* running; the processor is handed frames, and a structuring call that is
\* in flight returns or raises in the end (the event loop resumes
\* process_frame when the awaited call is done).
InitLive ==
    /\ agent = "baml"
    /\ BAML_AVAILABLE \in BOOLEAN
    /\ pc = "await_runner"
    /\ missing_vars = {}
    /\ created = {BuildOrder(agent)[i] : i \in 1..Len(BuildOrder(agent))}
    /\ runner_task = "running"
    /\ cancels = 0
    /\ writes = 0
    /\ env_missing = FALSE
    /\ BamlProcessorInit
    /\ PipeIdle
    /\ EvalIdle
    /\ conversation = <<>>
    /\ current_call_id = "c1"
    /\ last_user_input = None
    /\ last_input_time = NoTime
    /\ files = <<>>
    /\ clock = 1
    /\ epoch = 1
    /\ lastOp = [op |-> "start_new_call", arg |-> "c1"]
    /\ lastWrite = <<>>
    /\ nrec = 0

NextLive ==
    \/ DeliverFrame
    \/ StructuringReturns
    \/ StructuringRaises

SpecLive ==
    /\ InitLive
    /\ [][NextLive]_vars
    /\ WF_vars(StructuringReturns \/ StructuringRaises)

\* ------------------------------------------- frames along the processor list
\* ValidationFreeDebugProcessor.process_frame (lines 97-135; 62-98): the
\* frames it pushes.
debug_process_frame(frame, direction) ==
    /\ debug_pipeline_started' =
          IF frame.kind = "StartFrame" THEN TRUE
          ELSE IF frame.kind = "EndFrame" THEN FALSE
          ELSE debug_pipeline_started
    /\ UNCHANGED <<bamlVars, recVars>>

\* try_raises: an Exception inside the try block (a print of lines 109-125
\* or the push_frame of line 128); retry_raises: the push_frame of the
\* handler raises (lines 132-135).  A push that raises hands nothing on.
debug_pushes(frame, direction, try_raises, retry_raises) ==
    IF try_raises /\ retry_raises THEN <<>>
    ELSE <<[frame |-> frame, direction |-> direction]>>

\* The processors of the framework: the speech-to-text service turns an
\* audio frame into a text frame that travels on DOWNSTREAM, the others
\* pass a frame on in the direction it came in.
framework_pushes(name, frame, direction) ==
    IF name = "stt" /\ frame.kind = "AudioRawFrame" /\ direction = DOWNSTREAM
    THEN <<[frame |-> TextFrame("hi", frame.id), direction |-> DOWNSTREAM]>>
    ELSE <<[frame |-> frame, direction |-> direction]>>

\* push_frame of processor k: DOWNSTREAM to the next processor of the list,
\* UPSTREAM to the previous one; past either end the frame leaves the list.
RECURSIVE Route(_, _, _)
Route(inb, k, outs) ==
    IF outs = <<>> THEN inb
    ELSE LET o == Head(outs)
             to == IF o.direction = DOWNSTREAM THEN k + 1 ELSE k - 1
         IN Route(IF to \in DOMAIN inb
                  THEN [inb EXCEPT ![to] = Append(@, o)]
                  ELSE inb,
                  k, Tail(outs))

\* Processor k takes the next frame of its queue.
Step(k) ==
    /\ k \in DOMAIN inbox
    /\ inbox[k] # <<>>
    /\ runner_task = "running"
    /\ LET e == Head(inbox[k])
           name == Pipeline(agent)[k]
           rest == [inbox EXCEPT ![k] = Tail(@)]
       IN /\ Observe(k, e.frame)
          /\ IF name = "debug" THEN
                \E try_raises \in BOOLEAN, retry_raises \in BOOLEAN :
                   LET outs == debug_pushes(e.frame, e.direction,
                                            try_raises, retry_raises)
                   IN /\ debug_process_frame(e.frame, e.direction)
                      /\ inbox' = Route(rest, k, outs)
                      /\ taken' = [proc |-> name, frame |-> e.frame,
                                   direction |-> e.direction, pushes |-> outs,
                                   escaped |-> FALSE]
             ELSE IF name = "baml" THEN
                \E push_raises \in BOOLEAN :
                   /\ IF push_raises
                      THEN process_frame_push_raises(e.frame, e.direction)
                      ELSE process_frame(e.frame, e.direction)
                   /\ LET outs == SubSeq(pushed', Len(pushed) + 1, Len(pushed'))
                      IN /\ inbox' = Route(rest, k, outs)
                         /\ taken' = [proc |-> name, frame |-> e.frame,
                                      direction |-> e.direction,
                                      pushes |-> outs, escaped |-> push_raises]
                   /\ UNCHANGED debug_pipeline_started
             ELSE
                /\ inbox' = Route(rest, k,
                                  framework_pushes(name, e.frame, e.direction))
                /\ UNCHANGED <<debug_pipeline_started, bamlVars, recVars, taken>>
    /\ UNCHANGED <<evalVars, mainVars, emitted, task_started, nframes, event>>

PipeStep == \E k \in 1..Len(Pipeline(agent)) : Step(k)

\* The input transport, once the runner runs, produces an audio frame.
EmitAudio ==
    /\ runner_task = "running"
    /\ emitted < MaxAudio
    /\ emitted' = emitted + 1
    /\ inbox' = Route(inbox, 1,
                      <<[frame |-> AudioRawFrame(emitted + 1),
                         direction |-> DOWNSTREAM]>>)
    /\ UNCHANGED <<debug_pipeline_started, task_started, seen_start, early_data,
                   seen_end, head_starts, taken>>
    /\ UNCHANGED <<evalVars, mainVars, recVars, bamlVars>>

\* The task of the runner queues its own StartFrame for the first processor.
TaskEmitsStart ==
    /\ runner_task = "running"
    /\ ~task_started
    /\ task_started' = TRUE
    /\ inbox' = [inbox EXCEPT ![1] = Append(@, [frame |-> StartFrame(0),
                                                direction |-> DOWNSTREAM])]
    /\ UNCHANGED <<debug_pipeline_started, emitted, seen_start, early_data,
                   seen_end, head_starts, taken>>
    /\ UNCHANGED <<evalVars, mainVars, recVars, bamlVars>>

\* first_processor.process_frame(start_frame, DOWNSTREAM), called directly:
\* the input transport passes the frame on, or raises.
first_processor_process_frame ==
    \/ /\ Observe(1, StartFrame(0))
       /\ inbox' = Route(inbox, 1, framework_pushes(Pipeline(agent)[1],
                                                    StartFrame(0), DOWNSTREAM))
       /\ UNCHANGED <<debug_pipeline_started, emitted, task_started, taken>>
    \/ UNCHANGED pipeVars

PipeInject ==
    /\ manually_start_pipeline(first_processor_process_frame)
    /\ UNCHANGED <<recVars, bamlVars>>

\* main() has built the pipeline, the task and the runner.
InitPipe ==
    /\ agent \in {"baml", "vanilla"}
    /\ BAML_AVAILABLE \in (IF agent = "baml" THEN BOOLEAN ELSE {FALSE})
    /\ pc = "create_task"
    /\ missing_vars = {}
    /\ created = {BuildOrder(agent)[i] : i \in 1..Len(BuildOrder(agent))}
    /\ runner_task = "none"
    /\ cancels = 0
    /\ writes = 0
    /\ env_missing = FALSE
    /\ BamlProcessorInit
    /\ PipeIdle
    /\ EvalIdle
    /\ conversation = <<>>
    /\ current_call_id = (IF agent = "baml" THEN "c1" ELSE None)
    /\ last_user_input = None
    /\ last_input_time = NoTime
    /\ files = <<>>
    /\ clock = 1
    /\ epoch = (IF agent = "baml" THEN 1 ELSE 0)
    /\ lastOp = [op |-> (IF agent = "baml" THEN "start_new_call" ELSE "init"),
                 arg |-> current_call_id]
    /\ lastWrite = <<>>
    /\ nrec = 0

NextPipe ==
    \/ CreateTask
    \/ Sleep
    \/ PipeInject
    \/ TaskEmitsStart
    \/ EmitAudio
    \/ PipeStep

SpecPipe == InitPipe /\ [][NextPipe]_vars

\* ------------------------------------------------------ evaluate_agent.py
UpperCase ==
    <<"A", "B", "C", "D", "E", "F", "G", "H", "I", "J", "K", "L", "M",
      "N", "O", "P", "Q", "R", "S", "T", "U", "V", "W", "X", "Y", "Z">>
LowerCase ==
    <<"a", "b", "c", "d", "e", "f", "g", "h", "i", "j", "k", "l", "m",
      "n", "o", "p", "q", "r", "s", "t", "u", "v", "w", "x", "y", "z">>

\* str.lower()
lower(s) ==
    [i \in 1..Len(s) |->
        IF \E k \in 1..26 : UpperCase[k] = s[i]
        THEN LowerCase[CHOOSE k \in 1..26 : UpperCase[k] = s[i]]
        ELSE s[i]]

\* sub in s, for strings
Contains(sub, s) ==
    \E i \in 0..(Len(s) - Len(sub)) : SubSeq(s, i + 1, i + Len(sub)) = sub

\* The scenarios of _create_test_scenarios (lines 66-169), with the fields
\* the evaluation reads; a string is the sequence of its characters.
scenarios ==
    <<
      \* "What are your business hours?"
      [id |-> "simple_query",
       user_input |->
         <<"W", "h", "a", "t", " ", "a", "r", "e", " ", "y", "o", "u", "r",
           " ", "b", "u", "s", "i", "n", "e", "s", "s", " ", "h", "o", "u",
           "r", "s", "?">>,
       requires_context |-> FALSE,
       escalation_likely |-> FALSE],
      \* "Tell me about your premium plan"
      [id |-> "product_info",
       user_input |->
         <<"T", "e", "l", "l", " ", "m", "e", " ", "a", "b", "o", "u", "t",
           " ", "y", "o", "u", "r", " ", "p", "r", "e", "m", "i", "u", "m",
           " ", "p", "l", "a", "n">>,
       requires_context |-> FALSE,
       escalation_likely |-> FALSE],
      \* "I can't log into my account"
      [id |-> "technical_issue",
       user_input |->
         <<"I", " ", "c", "a", "n", "'", "t", " ", "l", "o", "g", " ", "i",
           "n", "t", "o", " ", "m", "y", " ", "a", "c", "c", "o", "u", "n",
           "t">>,
       requires_context |-> TRUE,
       escalation_likely |-> TRUE],
      \* "Why was I charged twice?"
      [id |-> "billing_question",
       user_input |->
         <<"W", "h", "y", " ", "w", "a", "s", " ", "I", " ", "c", "h", "a",
           "r", "g", "e", "d", " ", "t", "w", "i", "c", "e", "?">>,
       requires_context |-> TRUE,
       escalation_likely |-> TRUE],
      \* "Can you add mobile app support?"
      [id |-> "feature_request",
       user_input |->
         <<"C", "a", "n", " ", "y", "o", "u", " ", "a", "d", "d", " ", "m",
           "o", "b", "i", "l", "e", " ", "a", "p", "p", " ", "s", "u", "p",
           "p", "o", "r", "t", "?">>,
       requires_context |-> FALSE,
       escalation_likely |-> FALSE],
      \* "Your service was down yesterday"
      [id |-> "complaint_handling",
       user_input |->
         <<"Y", "o", "u", "r", " ", "s", "e", "r", "v", "i", "c", "e", " ",
           "w", "a", "s", " ", "d", "o", "w", "n", " ", "y", "e", "s", "t",
           "e", "r", "d", "a", "y">>,
       requires_context |-> TRUE,
       escalation_likely |-> TRUE],
      \* "How do I change my password?"
      [id |-> "account_management",
       user_input |->
         <<"H", "o", "w", " ", "d", "o", " ", "I", " ", "c", "h", "a", "n",
           "g", "e", " ", "m", "y", " ", "p", "a", "s", "s", "w", "o", "r",
           "d", "?">>,
       requires_context |-> FALSE,
       escalation_likely |-> FALSE],
      \* "What's the difference between plans?"
      [id |-> "pricing_inquiry",
       user_input |->
         <<"W", "h", "a", "t", "'", "s", " ", "t", "h", "e", " ", "d", "i",
           "f", "f", "e", "r", "e", "n", "c", "e", " ", "b", "e", "t", "w",
           "e", "e", "n", " ", "p", "l", "a", "n", "s", "?">>,
       requires_context |-> FALSE,
       escalation_likely |-> FALSE],
      \* "Does this work with Slack?"
      [id |-> "integration_question",
       user_input |->
         <<"D", "o", "e", "s", " ", "t", "h", "i", "s", " ", "w", "o", "r",
           "k", " ", "w", "i", "t", "h", " ", "S", "l", "a", "c", "k", "?">>,
       requires_context |-> FALSE,
       escalation_likely |-> FALSE],
      \* "I need to speak to a supervisor"
      [id |-> "escalation_scenario",
       user_input |->
         <<"I", " ", "n", "e", "e", "d", " ", "t", "o", " ", "s", "p", "e",
           "a", "k", " ", "t", "o", " ", "a", " ", "s", "u", "p", "e", "r",
           "v", "i", "s", "o", "r">>,
       requires_context |-> TRUE,
       escalation_likely |-> TRUE]
    >>

\* The if/elif chain of _simulate_conversation (lines 301-320), in its
\* order: the text looked for in user_input.lower(), and the response.
canned ==
    <<
      \* "business hours"
      [key |->
         <<"b", "u", "s", "i", "n", "e", "s", "s", " ", "h", "o", "u", "r",
           "s">>,
       \* "Our business hours are Monday through Friday, 9 AM to 6 PM E..."
       response |->
         <<"O", "u", "r", " ", "b", "u", "s", "i", "n", "e", "s", "s", " ",
           "h", "o", "u", "r", "s", " ", "a", "r", "e", " ", "M", "o", "n",
           "d", "a", "y", " ", "t", "h", "r", "o", "u", "g", "h", " ", "F",
           "r", "i", "d", "a", "y", ",", " ", "9", " ", "A", "M", " ", "t",
           "o", " ", "6", " ", "P", "M", " ", "E", "S", "T", ".">>],
      \* "premium plan"
      [key |->
         <<"p", "r", "e", "m", "i", "u", "m", " ", "p", "l", "a", "n">>,
       \* "Our premium plan includes advanced features, priority suppor..."
       response |->
         <<"O", "u", "r", " ", "p", "r", "e", "m", "i", "u", "m", " ", "p",
           "l", "a", "n", " ", "i", "n", "c", "l", "u", "d", "e", "s", " ",
           "a", "d", "v", "a", "n", "c", "e", "d", " ", "f", "e", "a", "t",
           "u", "r", "e", "s", ",", " ", "p", "r", "i", "o", "r", "i", "t",
           "y", " ", "s", "u", "p", "p", "o", "r", "t", ",", " ", "a", "n",
           "d", " ", "u", "n", "l", "i", "m", "i", "t", "e", "d", " ", "u",
           "s", "a", "g", "e", " ", "f", "o", "r", " ", "$", "2", "9", "/",
           "m", "o", "n", "t", "h", ".">>],
      \* "can't log in"
      [key |->
         <<"c", "a", "n", "'", "t", " ", "l", "o", "g", " ", "i", "n">>,
       \* "I can help you with that. Let me check your account status. ..."
       response |->
         <<"I", " ", "c", "a", "n", " ", "h", "e", "l", "p", " ", "y", "o",
           "u", " ", "w", "i", "t", "h", " ", "t", "h", "a", "t", ".", " ",
           "L", "e", "t", " ", "m", "e", " ", "c", "h", "e", "c", "k", " ",
           "y", "o", "u", "r", " ", "a", "c", "c", "o", "u", "n", "t", " ",
           "s", "t", "a", "t", "u", "s", ".", " ", "C", "a", "n", " ", "y",
           "o", "u", " ", "p", "r", "o", "v", "i", "d", "e", " ", "y", "o",
           "u", "r", " ", "u", "s", "e", "r", "n", "a", "m", "e", "?">>],
      \* "charged twice"
      [key |->
         <<"c", "h", "a", "r", "g", "e", "d", " ", "t", "w", "i", "c", "e">>,
       \* "I apologize for the double charge. Let me investigate this b..."
       response |->
         <<"I", " ", "a", "p", "o", "l", "o", "g", "i", "z", "e", " ", "f",
           "o", "r", " ", "t", "h", "e", " ", "d", "o", "u", "b", "l", "e",
           " ", "c", "h", "a", "r", "g", "e", ".", " ", "L", "e", "t", " ",
           "m", "e", " ", "i", "n", "v", "e", "s", "t", "i", "g", "a", "t",
           "e", " ", "t", "h", "i", "s", " ", "b", "i", "l", "l", "i", "n",
           "g", " ", "i", "s", "s", "u", "e", " ", "f", "o", "r", " ", "y",
           "o", "u", ".">>],
      \* "mobile app"
      [key |->
         <<"m", "o", "b", "i", "l", "e", " ", "a", "p", "p">>,
       \* "Thank you for the feature request. I'll forward this to our ..."
       response |->
         <<"T", "h", "a", "n", "k", " ", "y", "o", "u", " ", "f", "o", "r",
           " ", "t", "h", "e", " ", "f", "e", "a", "t", "u", "r", "e", " ",
           "r", "e", "q", "u", "e", "s", "t", ".", " ", "I", "'", "l", "l",
           " ", "f", "o", "r", "w", "a", "r", "d", " ", "t", "h", "i", "s",
           " ", "t", "o", " ", "o", "u", "r", " ", "d", "e", "v", "e", "l",
           "o", "p", "m", "e", "n", "t", " ", "t", "e", "a", "m", ".">>],
      \* "service was down"
      [key |->
         <<"s", "e", "r", "v", "i", "c", "e", " ", "w", "a", "s", " ", "d",
           "o", "w", "n">>,
       \* "I sincerely apologize for the service interruption. We exper..."
       response |->
         <<"I", " ", "s", "i", "n", "c", "e", "r", "e", "l", "y", " ", "a",
           "p", "o", "l", "o", "g", "i", "z", "e", " ", "f", "o", "r", " ",
           "t", "h", "e", " ", "s", "e", "r", "v", "i", "c", "e", " ", "i",
           "n", "t", "e", "r", "r", "u", "p", "t", "i", "o", "n", ".", " ",
           "W", "e", " ", "e", "x", "p", "e", "r", "i", "e", "n", "c", "e",
           "d", " ", "t", "e", "c", "h", "n", "i", "c", "a", "l", " ", "d",
           "i", "f", "f", "i", "c", "u", "l", "t", "i", "e", "s", " ", "y",
           "e", "s", "t", "e", "r", "d", "a", "y", ".">>],
      \* "change password"
      [key |->
         <<"c", "h", "a", "n", "g", "e", " ", "p", "a", "s", "s", "w", "o",
           "r", "d">>,
       \* "To change your password, go to Account Settings > Security >..."
       response |->
         <<"T", "o", " ", "c", "h", "a", "n", "g", "e", " ", "y", "o", "u",
           "r", " ", "p", "a", "s", "s", "w", "o", "r", "d", ",", " ", "g",
           "o", " ", "t", "o", " ", "A", "c", "c", "o", "u", "n", "t", " ",
           "S", "e", "t", "t", "i", "n", "g", "s", " ", ">", " ", "S", "e",
           "c", "u", "r", "i", "t", "y", " ", ">", " ", "C", "h", "a", "n",
           "g", "e", " ", "P", "a", "s", "s", "w", "o", "r", "d", ".">>],
      \* "difference between plans"
      [key |->
         <<"d", "i", "f", "f", "e", "r", "e", "n", "c", "e", " ", "b", "e",
           "t", "w", "e", "e", "n", " ", "p", "l", "a", "n", "s">>,
       \* "We offer three plans: Basic ($9/month), Standard ($19/month)..."
       response |->
         <<"W", "e", " ", "o", "f", "f", "e", "r", " ", "t", "h", "r", "e",
           "e", " ", "p", "l", "a", "n", "s", ":", " ", "B", "a", "s", "i",
           "c", " ", "(", "$", "9", "/", "m", "o", "n", "t", "h", ")", ",",
           " ", "S", "t", "a", "n", "d", "a", "r", "d", " ", "(", "$", "1",
           "9", "/", "m", "o", "n", "t", "h", ")", ",", " ", "a", "n", "d",
           " ", "P", "r", "e", "m", "i", "u", "m", " ", "(", "$", "2", "9",
           "/", "m", "o", "n", "t", "h", ")", ".">>],
      \* "work with slack"
      [key |->
         <<"w", "o", "r", "k", " ", "w", "i", "t", "h", " ", "s", "l", "a",
           "c", "k">>,
       \* "Yes, our service integrates with Slack through our official ..."
       response |->
         <<"Y", "e", "s", ",", " ", "o", "u", "r", " ", "s", "e", "r", "v",
           "i", "c", "e", " ", "i", "n", "t", "e", "g", "r", "a", "t", "e",
           "s", " ", "w", "i", "t", "h", " ", "S", "l", "a", "c", "k", " ",
           "t", "h", "r", "o", "u", "g", "h", " ", "o", "u", "r", " ", "o",
           "f", "f", "i", "c", "i", "a", "l", " ", "i", "n", "t", "e", "g",
           "r", "a", "t", "i", "o", "n", ".">>],
      \* "speak to supervisor"
      [key |->
         <<"s", "p", "e", "a", "k", " ", "t", "o", " ", "s", "u", "p", "e",
           "r", "v", "i", "s", "o", "r">>,
       \* "I understand you'd like to speak with a supervisor. Let me t..."
       response |->
         <<"I", " ", "u", "n", "d", "e", "r", "s", "t", "a", "n", "d", " ",
           "y", "o", "u", "'", "d", " ", "l", "i", "k", "e", " ", "t", "o",
           " ", "s", "p", "e", "a", "k", " ", "w", "i", "t", "h", " ", "a",
           " ", "s", "u", "p", "e", "r", "v", "i", "s", "o", "r", ".", " ",
           "L", "e", "t", " ", "m", "e", " ", "t", "r", "a", "n", "s", "f",
           "e", "r", " ", "y", "o", "u", " ", "t", "o", " ", "o", "u", "r",
           " ", "e", "s", "c", "a", "l", "a", "t", "i", "o", "n", " ", "t",
           "e", "a", "m", ".">>]
    >>

\* The else branch (line 322): "I understand your request. Let me help you with that."
default_response ==
    <<"I", " ", "u", "n", "d", "e", "r", "s", "t", "a", "n", "d", " ", "y",
      "o", "u", "r", " ", "r", "e", "q", "u", "e", "s", "t", ".", " ", "L",
      "e", "t", " ", "m", "e", " ", "h", "e", "l", "p", " ", "y", "o", "u",
      " ", "w", "i", "t", "h", " ", "t", "h", "a", "t", ".">>

\* "supervisor" (line 331)
supervisor ==
    <<"s", "u", "p", "e", "r", "v", "i", "s", "o", "r">>

\* _simulate_conversation(agent, user_input): the response of the first
\* branch of the chain whose text is in user_input.lower().
_simulate_conversation(user_input) ==
    LET hits == {k \in 1..Len(canned) : Contains(canned[k].key, lower(user_input))}
    IN IF hits = {} THEN default_response
       ELSE canned[CHOOSE k \in hits : \A j \in hits : k <= j].response

\* _calculate_accuracy(response, scenario); the scores 1.0, 0.8 and 0.0 in
\* tenths, their mean as the quotient of Python's division.
_calculate_accuracy(response, scenario) ==
    LET intent_recognition == IF response # <<>> THEN 10 ELSE 0
        context_retention ==
            IF scenario.requires_context /\ Len(response) > 50 THEN 10 ELSE 8
        handoff_appropriate ==
            IF scenario.escalation_likely /\ Contains(supervisor, lower(response))
            THEN 10 ELSE 8
    IN [overall |-> TrueDiv(intent_recognition + context_retention
                               + handoff_appropriate, 30),
        intent_recognition |-> intent_recognition,
        context_retention |-> context_retention,
        handoff_appropriate |-> handoff_appropriate]

\* The values a field of TestResult holds at run time: a bool, or the float
\* taken from the accuracy dict.  bool(v) is Python's truth value of it.
PyBool(b) == [type |-> "bool", val |-> b]
PyFloat(tenths) == [type |-> "float", tenths |-> tenths]
bool(v) == IF v.type = "bool" THEN v.val ELSE v.tenths # 0

\* The TestResult of the try block (lines 203-215; 262-274).  The measured
\* times of latency are left out, its keys are kept; outcome is history.
OkResult(agent_type, scenario, response) ==
    LET accuracy == _calculate_accuracy(response, scenario) IN
    [scenario_id |-> scenario.id,
     agent_type |-> agent_type,
     latency |-> {"agent_creation", "conversation", "total"},
     accuracy |-> accuracy,
     handoff_success |-> PyFloat(accuracy.handoff_appropriate),
     error_occurred |-> FALSE,
     error_message |-> "",
     response_text |-> response,
     context_retained |-> PyFloat(accuracy.context_retention),
     intent_recognized |-> PyFloat(accuracy.intent_recognition),
     outcome |-> "ok"]

\* The TestResult of the except clause (lines 217-230; 276-290).
ErrorResult(agent_type, scenario, e) ==
    [scenario_id |-> scenario.id,
     agent_type |-> agent_type,
     latency |-> {"total"},
     accuracy |-> [overall |-> [num |-> 0, den |-> 1]],
     handoff_success |-> PyBool(FALSE),
     error_occurred |-> TRUE,
     error_message |-> e,
     response_text |-> <<>>,
     context_retained |-> PyBool(FALSE),
     intent_recognized |-> PyBool(FALSE),
     outcome |-> e]

\* How the try block may go.  baml_agent.py defines no create_baml_agent,
\* so the import of line 180 raises ImportError every time;
\* create_fixed_simple_agent exists and may raise.
BamlOutcomes == {"import_raises"}
VanillaOutcomes == {"import_raises", "create_raises", "ok"}

evaluate_baml_agent(scenario, outcome) ==
    IF outcome = "ok"
    THEN OkResult("baml", scenario, _simulate_conversation(scenario.user_input))
    ELSE ErrorResult("baml", scenario, outcome)

\* An except clause that reports the intent as recognized.
MutErrorKeepsIntent(scenario, outcome) ==
    IF outcome = "ok"
    THEN OkResult("vanilla", scenario, _simulate_conversation(scenario.user_input))
    ELSE [ErrorResult("vanilla", scenario, outcome)
             EXCEPT !.intent_recognized = PyBool(TRUE)]

evaluate_vanilla_agent(scenario, outcome) ==
    IF outcome = "ok"
    THEN OkResult("vanilla", scenario, _simulate_conversation(scenario.user_input))
    ELSE ErrorResult("vanilla", scenario, outcome)

\* calculate_metrics(results, agent_type): the number of tests and the four
\* rates (lines 343-375); the averages of the latencies and of the
\* accuracies are left out.
calculate_metrics(rs, agent_type) ==
    LET agent_results == SelectSeq(rs, LAMBDA r : r.agent_type = agent_type)
        total_tests == Len(agent_results)
        count(P(_)) == Cardinality({i \in 1..total_tests : P(agent_results[i])})
        rate(P(_)) == TrueDiv(count(P), total_tests)
    IN IF agent_results = <<>>
       THEN [agent_type |-> agent_type,
             total_tests |-> 0,
             handoff_success_rate |-> [num |-> 0, den |-> 1],
             error_rate |-> [num |-> 0, den |-> 1],
             context_retention_rate |-> [num |-> 0, den |-> 1],
             intent_recognition_rate |-> [num |-> 0, den |-> 1]]
       ELSE [agent_type |-> agent_type,
             total_tests |-> total_tests,
             handoff_success_rate |-> rate(LAMBDA r : bool(r.handoff_success)),
             error_rate |-> rate(LAMBDA r : r.error_occurred),
             context_retention_rate |-> rate(LAMBDA r : bool(r.context_retained)),
             intent_recognition_rate |-> rate(LAMBDA r : bool(r.intent_recognized))]

\* main() of evaluate_agent.py: one evaluation of a scenario (lines 519,
\* 530), and the metrics of the results so far (lines 540-541).
EvaluateBaml ==
    /\ Len(results) < MaxResults
    /\ \E k \in 1..Len(scenarios), o \in BamlOutcomes :
          results' = Append(results, evaluate_baml_agent(scenarios[k], o))
    /\ UNCHANGED <<metrics, recVars, mainVars, bamlVars, pipeVars>>

EvaluateVanilla ==
    /\ Len(results) < MaxResults
    /\ \E k \in 1..Len(scenarios), o \in VanillaOutcomes :
          results' = Append(results, evaluate_vanilla_agent(scenarios[k], o))
    /\ UNCHANGED <<metrics, recVars, mainVars, bamlVars, pipeVars>>

CalculateMetrics ==
    /\ \E t \in {"baml", "vanilla"} :
          metrics' = [m |-> calculate_metrics(results, t), n |-> Len(results)]
    /\ UNCHANGED <<results, recVars, mainVars, bamlVars, pipeVars>>

InitEval == RecorderInit /\ MainIdle /\ BamlProcessorInit /\ PipeIdle /\ EvalIdle

NextEval ==
    \/ EvaluateBaml
    \/ EvaluateVanilla
    \/ CalculateMetrics

SpecEval == InitEval /\ [][NextEval]_vars

\* ------------------------------------------------- claims on the recorder

\* C4: two save_call calls with no record_user_input or
\* record_agent_response call in between persist identical content, at
\* whatever clock times the two saves happen.  (Stated on the step of the
\* second save; refuted: the record carries datetime.now().)
C4_SaveTwiceIdentical ==
    [][(lastOp.op = "save_call" /\ lastOp'.op = "save_call")
          => lastWrite' = lastWrite]_vars

\* The latencies of the turns of conv that carry one, summed over the
\* indices of conv.
RECURSIVE C5_SumUpTo(_, _)
C5_SumUpTo(conv, n) ==
    IF n = 0 THEN 0
    ELSE C5_SumUpTo(conv, n - 1)
         + (IF "latency_ms" \in DOMAIN conv[n] THEN conv[n].latency_ms ELSE 0)

C5_Count(conv) ==
    Cardinality({i \in 1..Len(conv) : "latency_ms" \in DOMAIN conv[i]})

\* C5: _calculate_avg_latency returns the arithmetic mean of the latency_ms
\* of the turns that carry one (mean * count = sum), 0 when there is none,
\* and 200 for the latencies 100, 200, 300.
C5_AvgLatencyIsMean ==
    LET r == _calculate_avg_latency(conversation)
        n == C5_Count(conversation)
    IN /\ r.den > 0
       /\ n = 0 => r.num = 0
       /\ n > 0 => r.num * n = r.den * C5_SumUpTo(conversation, Len(conversation))
       /\ Latencies_of(conversation) = <<100, 200, 300>>
             => (r.num = 200 /\ r.den = 1)

C5_Witness ==
    /\ Latencies_of(conversation) = <<100, 200, 300>>
    /\ lastOp.op = "record_agent_response"

\* C6: after start_new_call(id), save_call persists a record keyed by id
\* whose conversation is the sequence of turns recorded since then, the
\* empty sequence included.  (Refuted: nothing is written for a call with no
\* turn.)
C6_SavePersistsTurns ==
    (lastOp.op = "save_call" /\ epoch > 0)
       => /\ lastWrite # <<>>
          /\ current_call_id \in DOMAIN files
          /\ files[current_call_id].call_id = current_call_id
          /\ files[current_call_id].call = epoch
          /\ files[current_call_id].conversation = conversation

\* C7: every record_user_input and every record_agent_response call appends
\* exactly one turn and leaves the earlier turns as they were.  (Refuted: an
\* agent response with no truthy last_user_input appends nothing.)
C7_RecordAppendsOne ==
    [][(nrec' = nrec + 1)
          => /\ Len(conversation') = Len(conversation) + 1
             /\ SubSeq(conversation', 1, Len(conversation)) = conversation]_vars

\* C8: after start_new_call(id) the conversation is empty, last_user_input
\* and last_input_time are cleared and current_call_id is id; every turn in
\* memory belongs to the current call, and every saved record holds turns of
\* the call it was saved for only.
C8_StartResets ==
    /\ lastOp.op = "start_new_call"
          => /\ conversation = <<>>
             /\ last_user_input = None
             /\ last_input_time = NoTime
             /\ current_call_id = lastOp.arg
    /\ \A i \in 1..Len(conversation) : conversation[i].call = epoch
    /\ \A id \in DOMAIN files :
          \A i \in 1..Len(files[id].conversation) :
             files[id].conversation[i].call = files[id].call

\* A second call was started after a first call with turns, and both calls
\* have a saved record.
C8_Witness ==
    /\ epoch = 2
    /\ \E a \in DOMAIN files : files[a].call = 1
    /\ \E b \in DOMAIN files : files[b].call = 2 /\ b = current_call_id

\* C9: total_turns of a saved record is the number of turns of its
\* conversation, user and agent turns alike.  (Refuted: only user turns are
\* counted.)
C9_TotalTurnsCountsAll ==
    \A id \in DOMAIN files :
       files[id].total_turns = Len(files[id].conversation)

\* -------------------------------------------- claims on the run of main()

\* The conditions under which process_frame takes the structuring branch
\* for a frame (lines 226-229), read in the state before the delivery.
C2_Attempts(frame, direction) ==
    /\ frame.kind = "TextFrame"
    /\ direction = DOWNSTREAM
    /\ baml_pipeline_started
    /\ last_user_text # None /\ last_user_text # ""
    /\ ~_processing_response

\* C2: when the processor attempts to structure a DOWNSTREAM TextFrame and
\* the structuring layer is unavailable, or its call raises, the processor
\* pushes that frame unchanged in the same direction as its next output and
\* no exception leaves process_frame.
C2_FallbackPushesOriginal ==
    [][/\ (event'.kind = "deliver" /\ nframes' = nframes + 1
              /\ C2_Attempts(event'.frame, event'.direction) /\ ~BAML_AVAILABLE)
          => /\ pushed' = Append(pushed, [frame |-> event'.frame,
                                          direction |-> event'.direction])
             /\ ~event'.escaped
       /\ (event'.kind = "raises" /\ pending # <<>> /\ pending' = Tail(pending))
          => /\ pushed' = Append(pushed, [frame |-> Head(pending).frame,
                                          direction |-> Head(pending).direction])
             /\ Head(pending).direction = DOWNSTREAM
             /\ Head(pending).frame.kind = "TextFrame"
             /\ ~event'.escaped]_vars

\* The structuring call for a TextFrame raised and the frame was pushed on.
C2_Witness ==
    /\ event.kind = "raises"
    /\ event.frame.kind = "TextFrame"
    /\ pushed # <<>>
    /\ pushed[Len(pushed)].frame = event.frame

\* C3: when main() of baml_agent.py has returned, a call that was started
\* and has at least one turn has been written by save_call exactly once.
\* (Refuted: after the runner task completes normally no except clause
\* runs, and save_call is called only there.)
C3_SavedOnceAtReturn ==
    (pc = "done" /\ agent = "baml" /\ epoch > 0 /\ conversation # <<>>)
       => writes = 1

\* C10: if a required environment variable is missing, main() ends at
\* startup: nothing is created, no runner task exists, no call recording is
\* started, runner.cancel() is not called.
C10_MissingEnvEndsAtStartup ==
    env_missing
       => /\ pc = (IF agent = "baml" THEN "exited" ELSE "done")
          /\ created = {}
          /\ runner_task = "none"
          /\ epoch = 0
          /\ cancels = 0
          /\ nframes = 0

C10_Witness ==
    /\ env_missing
    /\ "DAILY_ROOM_URL" \in missing_vars
    /\ pc \in {"exited", "done"}

\* C18: a call record is written by main() of baml_agent.py only after the
\* runner has shut down: runner.cancel() has been called before, or the
\* runner task has ended.  (Refuted: on Ctrl+C the except clause saves while
\* the runner task runs; runner.cancel() comes in the finally clause.)
C18_SaveAfterRunnerShutdown ==
    [][(writes' = writes + 1)
          => (cancels > 0
                \/ runner_task \in {"finished", "failed", "cancelled"})]_vars

\* C19: when save_call raises, main() of baml_agent.py still returns
\* normally, runner.cancel() having been called.  (Refuted: the exception
\* leaves the except clause and, after the finally clause, main().)
C19_SaveFailureContained ==
    (lastOp = [op |-> "save_call", arg |-> "raised"] /\ pc \in {"done", "raised"})
       => (pc = "done" /\ cancels = 1)

C1_NoDataBeforeStart ==
    \A k \in DOMAIN early_data : ~early_data[k]

\* C11: the first processor of the list is delivered exactly one StartFrame:
\* never more than one, and exactly one once manually_start_pipeline has
\* returned, the task has sent its StartFrame and the first processor has
\* taken all it was sent.  (Refuted: it observes the StartFrame of the task
\* and the StartFrame manually_start_pipeline hands it.)
C11_HeadGetsOneStart ==
    /\ head_starts <= 1
    /\ (pc = "await_runner" /\ task_started /\ inbox[1] = <<>>)
          => head_starts = 1

\* ------------------------------------------ claims on the BAML processor

\* The step hands frame event'.frame to process_frame of the BAML processor.
C12_Delivers == event'.kind = "deliver" /\ nframes' = nframes + 1

\* C12: while the BAML processor has not observed a StartFrame, a data frame
\* (text, audio) handed to it causes no recorder write, no structuring call
\* and no change of last_user_text, and no exception leaves process_frame.
C12_NoActionBeforeStart ==
    [][(C12_Delivers /\ ~seen_start[BamlIndex] /\ IsData(event'.frame))
          => /\ UNCHANGED <<conversation, last_user_input, last_input_time,
                            files, nrec, lastOp>>
             /\ UNCHANGED <<pending, _processing_response, last_user_text>>
             /\ ~event'.escaped]_vars

\* An UPSTREAM text frame and then a DOWNSTREAM text frame were handed to
\* the processor before any StartFrame, and nothing was recorded.
C12_Witness ==
    /\ ~seen_start[BamlIndex]
    /\ nframes >= 2
    /\ event.kind = "deliver"
    /\ event.frame = TextFrame("hi", 2)
    /\ event.direction = DOWNSTREAM
    /\ \E i \in 1..Len(pushed) :
          pushed[i] = [frame |-> TextFrame("hi", 1), direction |-> UPSTREAM]
    /\ conversation = <<>>

\* C13: after the processor has observed an EndFrame, a data frame handed
\* to it is neither processed nor pushed on.  (Refuted: with
\* _pipeline_started false the frame is pushed on, lines 211-213.)
C13_DataRejectedAfterEnd ==
    [][(C12_Delivers /\ seen_end[BamlIndex] /\ IsData(event'.frame))
          => /\ pushed' = pushed
             /\ UNCHANGED <<conversation, pending, last_user_text>>]_vars

\* C14: once the processor has observed an EndFrame it is not Running
\* again.  (Refuted: a later StartFrame sets _pipeline_started, lines
\* 204-206.)
C14_LifecycleMonotone ==
    seen_end[BamlIndex] => ~baml_pipeline_started

\* C15: the processor pushes DOWNSTREAM frames in the order in which it was
\* handed the frames they come from: when a step pushes a frame DOWNSTREAM
\* for the frame event'.frame, no frame handed to the processor later
\* (greater id) has been pushed DOWNSTREAM before.  (Refuted: a frame handed
\* over during await b.CustomerSupport(..) is pushed at once, the structured
\* response of the earlier frame after it.)
C15_DownstreamOrderKept ==
    [][(Len(pushed') = Len(pushed) + 1
           /\ pushed'[Len(pushed')].direction = DOWNSTREAM)
          => \A j \in 1..Len(pushed) :
                (pushed[j].direction = DOWNSTREAM /\ pushed[j].frame.id # 0)
                   => pushed[j].frame.id < event'.frame.id]_vars

\* C17: when the structuring call returns after the processor has observed
\* an EndFrame, nothing is pushed and no turn is recorded.  (Refuted: lines
\* 241-253 do not look at _pipeline_started.)
C17_LateResultDiscarded ==
    [][(event'.kind = "returns" /\ pending # <<>> /\ pending' = Tail(pending)
           /\ seen_end[BamlIndex])
          => (pushed' = pushed /\ conversation' = conversation)]_vars

\* C16: a frame the debug processor or the BAML processor does not transform
\* (for the BAML processor: every frame but a DOWNSTREAM TextFrame) is pushed
\* exactly once, unchanged and in its direction, and no exception leaves
\* process_frame, also when a print or a push_frame call raises.  (Refuted:
\* the BAML processor has no handler around push_frame, and the debug
\* processor gives the frame up when the push of its handler raises too.)
C16_PassedOnExactlyOnce ==
    (taken.proc = "debug"
        \/ (taken.proc = "baml"
              /\ ~(taken.frame.kind = "TextFrame" /\ taken.direction = DOWNSTREAM)))
       => /\ taken.pushes = <<[frame |-> taken.frame,
                               direction |-> taken.direction]>>
          /\ ~taken.escaped

\* C21: every text frame of the speech-to-text stage that the BAML processor
\* takes comes to it UPSTREAM, becomes last_user_text and is recorded as a
\* user turn.  (Refuted: the BAML processor stands after the speech-to-text
\* stage in the list, so the text reaches it DOWNSTREAM, and an UPSTREAM
\* frame of that stage travels away from it.)
C21_SttTextCapturedUpstream ==
    (taken.proc = "baml" /\ taken.frame.kind = "TextFrame" /\ ~taken.escaped)
       => /\ taken.direction = UPSTREAM
          /\ last_user_text = taken.frame.text
          /\ \E i \in 1..Len(conversation) :
                /\ conversation[i].type = "user"
                /\ conversation[i].text = taken.frame.text

\* C22: when every structuring call returns or raises in the end, every
\* frame handed to the BAML processor is followed by a push: once n frames
\* have been handed over, the processor gets to n pushes.
C22_EveryFrameAnswered ==
    \A n \in 1..MaxFrames : (nframes = n) ~> (Len(pushed) >= n)

\* The last frame handed over waited for a structuring call and was
\* answered by the structured response.
C22_Witness ==
    /\ nframes = MaxFrames
    /\ event.kind = "returns"
    /\ event.frame.id = MaxFrames
    /\ Len(pushed) = MaxFrames

\* C24: when the structuring call for an utterance has returned, none of the
\* DOWNSTREAM TextFrames handed to the processor after the frame the call
\* was made for has been pushed on.  (Refuted: while the call is in flight
\* the guard of line 229 fails for them and line 267 pushes them.)
C24_OnlyStructuredForwarded ==
    event.kind = "returns"
       => ~\E i \in 1..Len(pushed) :
              /\ pushed[i].frame.kind = "TextFrame"
              /\ pushed[i].direction = DOWNSTREAM
              /\ pushed[i].frame.id > event.frame.id

\* C25: the structuring layer is called at most once for a captured
\* utterance: right after a call for it has raised, the next frame handed to
\* the processor starts no second call.  (Refuted: the except clause leaves
\* last_user_text as it is, so the next DOWNSTREAM TextFrame calls again.)
C25_OneCallPerUtterance ==
    [][~(event.kind = "raises" /\ pending = <<>>
           /\ Len(pending') = 1
           /\ pending'[1].user_message = last_user_text)]_vars

\* C26: every UPSTREAM TextFrame handed to the started processor becomes
\* last_user_text and a user turn.  (Refuted: not while a structuring call
\* is in flight, line 217.)
C26_UpstreamTextCaptured ==
    [][(C12_Delivers /\ event'.frame.kind = "TextFrame"
           /\ event'.direction = UPSTREAM /\ baml_pipeline_started)
          => /\ last_user_text' = event'.frame.text
             /\ conversation' = Append(conversation, UserTurn(event'.frame.text))]_vars

\* C27: at most one structuring call is in flight, and _processing_response
\* is true exactly while one is: it is false again after the call returned,
\* raised or was cancelled.
C27_OneCallInFlight ==
    /\ Len(pending) <= 1
    /\ _processing_response <=> (pending # <<>>)

\* A structuring call was cancelled with the task, and the flag is false.
C27_Witness ==
    /\ event.kind = "cancelled"
    /\ pending = <<>>
    /\ ~_processing_response

\* C28: every agent turn of the conversation, and of every saved record,
\* has a user turn of the same call before it.
C28_AgentAfterUser ==
    /\ \A i \in 1..Len(conversation) :
          conversation[i].type = "agent"
             => \E j \in 1..(i - 1) :
                   /\ conversation[j].type = "user"
                   /\ conversation[j].call = conversation[i].call
    /\ \A id \in DOMAIN files :
          LET c == files[id].conversation IN
          \A i \in 1..Len(c) :
             c[i].type = "agent"
                => \E j \in 1..(i - 1) :
                      c[j].type = "user" /\ c[j].call = c[i].call

\* An agent response was recorded after a user input of the second call.
C28_Witness ==
    /\ epoch = 2
    /\ lastOp.op = "record_agent_response"
    /\ Len(conversation) = 2
    /\ conversation[1].type = "user"
    /\ conversation[2].type = "agent"

\* ------------------------------------------- claims on the evaluation

\* C23: the response of a test that ran without error is the response of
\* the branch of _simulate_conversation written for its scenario (the k-th
\* branch for the k-th scenario), not the default response.  (Refuted: the
\* texts looked for in "How do I change my password?" and in "I need to
\* speak to a supervisor" are not in them.)
C23_ScenarioGetsOwnResponse ==
    \A i \in 1..Len(results) :
       ~results[i].error_occurred
          => /\ results[i].response_text # default_response
             /\ \E k \in 1..Len(scenarios) :
                   /\ scenarios[k].id = results[i].scenario_id
                   /\ results[i].response_text = canned[k].response

\* C29: every evaluation yields a TestResult; error_occurred is true exactly
\* when the try block raised, and then the message is set, the response is
\* empty, the accuracy is {"overall": 0.0} and the three flags are False.
C29_ErrorYieldsErrorResult ==
    \A i \in 1..Len(results) :
       LET r == results[i] IN
       /\ r.error_occurred <=> (r.outcome # "ok")
       /\ r.error_occurred
             => /\ r.error_message = r.outcome
                /\ r.error_message # ""
                /\ r.response_text = <<>>
                /\ r.accuracy = [overall |-> [num |-> 0, den |-> 1]]
                /\ r.handoff_success = PyBool(FALSE)
                /\ r.context_retained = PyBool(FALSE)
                /\ r.intent_recognized = PyBool(FALSE)

\* The BAML evaluation failed at its import, a vanilla evaluation failed at
\* the creation of the agent.
C29_Witness ==
    /\ Len(results) = 2
    /\ results[1].agent_type = "baml" /\ results[1].outcome = "import_raises"
    /\ results[2].agent_type = "vanilla" /\ results[2].outcome = "create_raises"

\* The results of agent type t without error whose score of key is 1.0.
C30_FullScores(t, key) ==
    Cardinality({i \in 1..Len(results) :
                    /\ results[i].agent_type = t
                    /\ ~results[i].error_occurred
                    /\ results[i].accuracy[key] = 10})

\* C30: in the metrics of the results collected so far, the handoff success
\* rate counts the results without error whose handoff_appropriate score is
\* 1.0, and the context retention rate those whose context_retention score
\* is 1.0.  (Refuted: the flags hold the scores themselves, and 0.8 is true.)
C30_RatesCountFullScores ==
    (metrics.n = Len(results) /\ metrics.m.total_tests > 0)
       => LET t == metrics.m.agent_type
              total == metrics.m.total_tests
          IN /\ metrics.m.handoff_success_rate
                   = TrueDiv(C30_FullScores(t, "handoff_appropriate"), total)
             /\ metrics.m.context_retention_rate
                   = TrueDiv(C30_FullScores(t, "context_retention"), total)

====
